---- MODULE Spec2Model ----
(***************************************************************************)
(* A model of the SimFleet directory agent (taxi_simulator/directory.py)   *)
(* and of the simulator agent's lifecycle controller                       *)
(* (taxi_simulator/simulator.py).                                          *)
(*                                                                         *)
(* Python values are modelled as follows.                                  *)
(*   - None                    : the record [k |-> "none"] for a message   *)
(*                               body, NoneT (-1) for a number             *)
(*   - a str message body      : [k |-> "text", s |-> <the characters>]    *)
(*                               when the text is not a JSON document,     *)
(*                               [k |-> "json", t |-> "dict", v |-> rec]   *)
(*                               or [k |-> "json", t |-> "list", v |-> seq]*)
(*                               when it is the JSON text of that value    *)
(*   - a dict with insertion   : a sequence of entries (simulator          *)
(*     order                     collections) or a function whose DOMAIN   *)
(*                               is the key set (service_agents)           *)
(***************************************************************************)
EXTENDS Integers, Sequences, FiniteSets, TLC

\* ------------------------------------------------------------------------
\* Bounds of the model
\* ------------------------------------------------------------------------
\* messages the environment sends to the directory in one behaviour
MaxMsgs == 3
\* direct calls of remove_service in one behaviour
MaxRemove == 1

\* ------------------------------------------------------------------------
\* Protocol constants (taxi_simulator/protocol.py, imported at directory.py:9)
\* ------------------------------------------------------------------------
REQUEST_PROTOCOL == "REQUEST_PROTOCOL"
REGISTER_PROTOCOL == "REGISTER_PROTOCOL"
REQUEST_PERFORMATIVE == "request"
INFORM_PERFORMATIVE == "inform"
ACCEPT_PERFORMATIVE == "accept"
CANCEL_PERFORMATIVE == "cancel"

\* ------------------------------------------------------------------------
\* The values the environment draws its messages from
\* ------------------------------------------------------------------------
Types == {"taxi", "bus"}
Jids == {"m1@host", "m2@host"}
Senders == {"m1@host", "c1@host"}

NoBody == [k |-> "none"]
TextBody(s) == [k |-> "text", s |-> s]
JsonDict(rec) == [k |-> "json", t |-> "dict", v |-> rec]
JsonList(seq) == [k |-> "json", t |-> "list", v |-> seq]

\* registration bodies: {type, jid} records, and the malformed ones
WellFormedBodies == {JsonDict([type |-> ty, jid |-> j]) : ty \in Types, j \in Jids}
MalformedBodies ==
    { NoBody,
      TextBody("taxi"),
      JsonDict([jid |-> "m1@host"]),
      JsonDict([type |-> "taxi"]) }

Msg(sender, performative, body) ==
    [sender |-> sender, performative |-> performative, body |-> body]

\* an agent registers under its own jid; c1@host also registers m1@host
RegisterMsgs ==
    {Msg(b.v.jid, REQUEST_PERFORMATIVE, b) : b \in WellFormedBodies}
    \cup {Msg("c1@host", REQUEST_PERFORMATIVE, b) : b \in MalformedBodies}
    \cup {Msg("c1@host", INFORM_PERFORMATIVE,
               JsonDict([type |-> "taxi", jid |-> "m1@host"]))}

LookupMsgs ==
    {Msg("c1@host", REQUEST_PERFORMATIVE, TextBody(ty)) : ty \in Types}
    \cup {Msg("m1@host", REQUEST_PERFORMATIVE, TextBody("taxi")),
          Msg("c1@host", REQUEST_PERFORMATIVE, NoBody),
          Msg("c1@host", INFORM_PERFORMATIVE, TextBody("taxi"))}

VARIABLES
    service_agents,   \* DirectoryAgent.get("service_agents"): type -> list of jids
    regInbox,         \* mailbox of RegistrationBehaviour (REGISTER_PROTOCOL template)
    reqInbox,         \* mailbox of DirectoryStrategyBehaviour (REQUEST_PROTOCOL template)
    outbox,           \* every Message passed to self.send, in order
    regAlive,         \* RegistrationBehaviour still scheduled (no exception left run)
    reqAlive,         \* DirectoryStrategyBehaviour still scheduled
    dirCall,          \* the last direct call on the directory and how it ended
    processed,        \* history: the messages RegistrationBehaviour.run received
    nSent,            \* history: how many messages the environment has sent
    nRemove           \* history: how many remove_service calls were made

dirVars == <<service_agents, regInbox, reqInbox, outbox, regAlive, reqAlive,
             dirCall, processed, nSent, nRemove>>

VARIABLES
    manager_agents,        \* SimulatorAgent.get("manager_agents"): name -> agent, in insertion order
    transport_agents,      \* SimulatorAgent.get("transport_agents")
    customer_agents,       \* SimulatorAgent.get("customer_agents")
    simulation_running,    \* self.simulation_running
    simulation_time,       \* self.simulation_time (frozen elapsed time, or None)
    simulation_init_time,  \* self.simulation_init_time (start instant, or None)
    kill_simulator,        \* self.kill_simulator (threading.Event): is it set
    manager_generator,     \* self.manager_generator: the generator object's state
    pending,               \* coroutines passed to self.submit, not yet started (FIFO)
    inflight,              \* async_create_agent coroutines suspended in await agent.start
    now,                   \* time.time()
    simCall,               \* the last call on the simulator and how it ended
    batch,                 \* the create_agents_batch call that is in its loop: its
                           \*          iterations list and its place in it
    nextName,              \* history: how many agent names were generated
    nextLog,               \* history: what next(manager_generator) returned since the
                           \*          generator was built
    stable                 \* history: manager_agents holds what it held when the
                           \*          generator was built

clockVars == <<simulation_running, simulation_time, simulation_init_time>>
agentVars == <<manager_agents, transport_agents, customer_agents>>
taskVars == <<pending, inflight, batch, nextName>>
cursorVars == <<manager_generator, nextLog, stable>>

VARIABLES
    simulation_mutex,      \* self.simulation_mutex (threading.Lock): the thread holding it
    lock,                  \* self.lock (threading.RLock): the thread holding it
    ctl,                   \* the thread that calls run, stop_agents, clear_stopped_agents
                           \*          and clear_agents: the call it is in and its place in it
    adding                 \* the coroutine of the event loop that is past
                           \*          `await agent.start`, and its place

threadVars == <<simulation_mutex, lock, ctl, adding>>

simVars == <<agentVars, clockVars, kill_simulator, cursorVars, taskVars, now,
             simCall, threadVars>>

vars == <<dirVars, simVars>>

\* ------------------------------------------------------------------------
\* json.loads / json.dumps
\* ------------------------------------------------------------------------
\* json.loads(msg.body): the decoded value, or a raised exception
\* (TypeError for None, JSONDecodeError for a text that is no JSON document)
json_loads(body) ==
    IF body.k = "json"
    THEN [ok |-> TRUE, t |-> body.t, v |-> body.v]
    ELSE [ok |-> FALSE, t |-> "exception", v |-> <<>>]

\* json.dumps(list of str)
json_dumps(list) == JsonList(list)

\* the characters of a body, as the key `request in service_agents` looks up:
\* a JSON document or None is never equal to a service type of Types
BodyKey(body) == IF body.k = "text" THEN body.s ELSE "<not a service type>"

\* ------------------------------------------------------------------------
\* RegistrationBehaviour
\* ------------------------------------------------------------------------
\* add_service that skips a jid already in the list (de-duplicates)
add_service_dedup(service, d) ==
    IF d.t # "dict" \/ "type" \notin DOMAIN d.v
    THEN [ok |-> FALSE, service |-> service]
    ELSE IF "jid" \notin DOMAIN d.v
    THEN [ok |-> FALSE, service |-> service]
    ELSE IF d.v.type \in DOMAIN service
    THEN [ok |-> TRUE,
          service |-> [service EXCEPT ![d.v.type] =
                          IF \E i \in 1 .. Len(@) : @[i] = d.v.jid
                          THEN @ ELSE Append(@, d.v.jid)]]
    ELSE [ok |-> TRUE,
          service |-> [ty \in DOMAIN service \cup {d.v.type} |->
                          IF ty = d.v.type THEN <<d.v.jid>> ELSE service[ty]]]

\* add_service that takes the else branch every time (overwrites the list)
add_service_overwrite(service, d) ==
    IF d.t # "dict" \/ "type" \notin DOMAIN d.v
    THEN [ok |-> FALSE, service |-> service]
    ELSE IF "jid" \notin DOMAIN d.v
    THEN [ok |-> FALSE, service |-> service]
    ELSE [ok |-> TRUE,
          service |-> [ty \in DOMAIN service \cup {d.v.type} |->
                          IF ty = d.v.type THEN <<d.v.jid>> ELSE service[ty]]]

\* add_service whose append has not been made when the ACCEPT is sent
add_service_late(service, d) ==
    IF d.t # "dict" \/ "type" \notin DOMAIN d.v
    THEN [ok |-> FALSE, service |-> service]
    ELSE IF "jid" \notin DOMAIN d.v
    THEN [ok |-> FALSE, service |-> service]
    ELSE [ok |-> TRUE, service |-> service]

\* add_service(agent) with agent a decoded JSON value: the new store, or a
\* raised exception that leaves the store as it was
add_service(service, d) ==
    IF d.t # "dict" \/ "type" \notin DOMAIN d.v
    THEN [ok |-> FALSE, service |-> service]      \* TypeError / KeyError on agent["type"]
    ELSE IF "jid" \notin DOMAIN d.v
    THEN [ok |-> FALSE, service |-> service]      \* KeyError on agent["jid"]
    ELSE IF d.v.type \in DOMAIN service
    THEN [ok |-> TRUE,
          service |-> [service EXCEPT ![d.v.type] = Append(@, d.v.jid)]]
    ELSE [ok |-> TRUE,
          service |-> [ty \in DOMAIN service \cup {d.v.type} |->
                          IF ty = d.v.type THEN <<d.v.jid>> ELSE service[ty]]]

\* send_confirmation(agent_id): the reply Message
send_confirmation(agent_id) ==
    [to |-> agent_id, protocol |-> REGISTER_PROTOCOL,
     performative |-> ACCEPT_PERFORMATIVE, body |-> NoBody]

\* run without its try/except: the exception leaves run and ends the behaviour
RegistrationNoCatch == FALSE

\* is an exception raised in the body of run caught inside run (TRUE), or does
\* it leave run and end the behaviour (FALSE)?  run wraps its whole body in
\* try/except Exception
RegistrationCatches == TRUE

\* one iteration of RegistrationBehaviour.run on a received message
RegistrationRun ==
    /\ regAlive
    /\ regInbox # <<>>
    /\ LET msg == Head(regInbox)
           content == json_loads(msg.body)
           added == add_service(service_agents, content)
       IN
       /\ regInbox' = Tail(regInbox)
       /\ processed' = Append(processed, msg)
       /\ IF msg.performative # REQUEST_PERFORMATIVE
          THEN UNCHANGED <<service_agents, outbox, regAlive>>
          ELSE IF content.ok /\ added.ok
          THEN /\ service_agents' = added.service
               /\ outbox' = Append(outbox, send_confirmation(msg.sender))
               /\ UNCHANGED regAlive
          ELSE /\ UNCHANGED <<service_agents, outbox>>
               /\ regAlive' = RegistrationCatches
    /\ UNCHANGED <<reqInbox, reqAlive, dirCall, nSent, nRemove>>
    /\ UNCHANGED simVars

\* remove_service(type, agent): del service_agents[type][agent]
\* agent is what the caller passes: a jid (str) or a list index (int)
RemoveArgs == [k : {"jid"}, jid : {"m1@host"}, i : {0}] \cup [k : {"int"}, jid : {""}, i : {-1, 1}]

remove_service(service, type, agent) ==
    IF type \notin DOMAIN service
    THEN [result |-> "KeyError", service |-> service]
    ELSE IF agent.k # "int"
    THEN [result |-> "TypeError", service |-> service]   \* list indices must be integers
    ELSE LET lst == service[type]
             n == Len(lst)
             \* Python index -> position 1..n
             pos == IF agent.i < 0 THEN n + agent.i + 1 ELSE agent.i + 1
         IN IF pos < 1 \/ pos > n
            THEN [result |-> "IndexError", service |-> service]
            ELSE [result |-> "ok",
                  service |-> [service EXCEPT ![type] =
                                 SubSeq(lst, 1, pos - 1) \o SubSeq(lst, pos + 1, n)]]

RemoveService ==
    /\ nRemove < MaxRemove
    /\ \E type \in Types, agent \in RemoveArgs :
         LET r == remove_service(service_agents, type, agent) IN
         /\ service_agents' = r.service
         /\ dirCall' = [op |-> "remove_service", type |-> type, agent |-> agent,
                        result |-> r.result]
    /\ nRemove' = nRemove + 1
    /\ UNCHANGED <<regInbox, reqInbox, outbox, regAlive, reqAlive, processed, nSent>>
    /\ UNCHANGED simVars

\* ------------------------------------------------------------------------
\* DirectoryStrategyBehaviour
\* ------------------------------------------------------------------------
\* send_services that reads the list while an append is half made: the last
\* jid is missing
send_services_torn(service, agent_id, type_service) ==
    [to |-> agent_id, protocol |-> REQUEST_PROTOCOL,
     performative |-> INFORM_PERFORMATIVE,
     body |-> json_dumps(IF Len(service[type_service]) > 1
                         THEN SubSeq(service[type_service], 1,
                                     Len(service[type_service]) - 1)
                         ELSE service[type_service])]

\* send_services(agent_id, type_service): the reply Message
send_services(service, agent_id, type_service) ==
    [to |-> agent_id, protocol |-> REQUEST_PROTOCOL,
     performative |-> INFORM_PERFORMATIVE,
     body |-> json_dumps(service[type_service])]

send_negative(agent_id) ==
    [to |-> agent_id, protocol |-> REQUEST_PROTOCOL,
     performative |-> CANCEL_PERFORMATIVE, body |-> NoBody]

\* run that answers an unknown type with an empty list instead of CANCEL
StrategyRepliesEmptyList(service, msg) ==
    IF msg.performative # REQUEST_PERFORMATIVE
    THEN <<>>
    ELSE IF BodyKey(msg.body) \in DOMAIN service
    THEN <<send_services(service, msg.sender, BodyKey(msg.body))>>
    ELSE <<[to |-> msg.sender, protocol |-> REQUEST_PROTOCOL,
            performative |-> INFORM_PERFORMATIVE, body |-> json_dumps(<<>>)]>>

\* the replies one iteration of DirectoryStrategyBehaviour.run sends for msg
StrategyReplies(service, msg) ==
    IF msg.performative # REQUEST_PERFORMATIVE
    THEN <<>>
    ELSE IF BodyKey(msg.body) \in DOMAIN service
    THEN <<send_services(service, msg.sender, BodyKey(msg.body))>>
    ELSE <<send_negative(msg.sender)>>

DirectoryStrategyRun ==
    /\ reqAlive
    /\ reqInbox # <<>>
    /\ LET msg == Head(reqInbox) IN
       /\ reqInbox' = Tail(reqInbox)
       /\ outbox' = outbox \o StrategyReplies(service_agents, msg)
    /\ UNCHANGED <<service_agents, regInbox, regAlive, reqAlive, dirCall,
                   processed, nSent, nRemove>>
    /\ UNCHANGED simVars

\* ------------------------------------------------------------------------
\* The messaging substrate delivers a message to a mailbox
\* ------------------------------------------------------------------------
DeliverRegister ==
    /\ nSent < MaxMsgs
    /\ \E m \in RegisterMsgs : regInbox' = Append(regInbox, m)
    /\ nSent' = nSent + 1
    /\ UNCHANGED <<service_agents, reqInbox, outbox, regAlive, reqAlive, dirCall,
                   processed, nRemove>>
    /\ UNCHANGED simVars

DeliverLookup ==
    /\ nSent < MaxMsgs
    /\ \E m \in LookupMsgs : reqInbox' = Append(reqInbox, m)
    /\ nSent' = nSent + 1
    /\ UNCHANGED <<service_agents, regInbox, outbox, regAlive, reqAlive, dirCall,
                   processed, nRemove>>
    /\ UNCHANGED simVars

NoCall == [op |-> "none", type |-> "", agent |-> [k |-> "int", jid |-> "", i |-> 0],
           result |-> "ok"]

\* DirectoryAgent.__init__ and setup
DirInit ==
    /\ service_agents = <<>>
    /\ regInbox = <<>>
    /\ reqInbox = <<>>
    /\ outbox = <<>>
    /\ regAlive = TRUE
    /\ reqAlive = TRUE
    /\ dirCall = NoCall
    /\ processed = <<>>
    /\ nSent = 0
    /\ nRemove = 0


\* ========================================================================
\* SimulatorAgent (taxi_simulator/simulator.py)
\* ========================================================================
\* agents whose names are generated in one behaviour of SpecSim
MaxAgents == 2
\* agents whose names are generated in one behaviour of SpecCursor
MaxCursorAgents == 5
\* the largest time.time() reached
MaxTime == 2
\* agents whose names are generated in one behaviour of SpecCreate
MaxCreateAgents == 4

\* the values of `number` create_agents_batch is called with
BatchNumbers == -1 .. 2
\* the values of config.num_managers
InitManagers == 0 .. 1

\* None, for a variable that otherwise holds a number
NoneT == -1
\* `if x` / `not x` on None or a number
Truthy(x) == x # NoneT /\ x # 0

\* the chunk size of create_agents_batch
ChunkSize == 20

FleetManagerAgent == "FleetManagerAgent"
TransportAgent == "TransportAgent"
CustomerAgent == "CustomerAgent"
AgentClasses == {FleetManagerAgent, TransportAgent, CustomerAgent}

\* the strategy classes set_strategies loaded, and an agent without one
NoStrategy == "None"
StrategyOf(cls) ==
    CASE cls = FleetManagerAgent -> "fleetmanager_strategy"
      [] cls = TransportAgent -> "transport_strategy"
      [] OTHER -> "customer_strategy"

\* jid = f"{name}@{self.jid.domain}"; str(manager.jid)
Jid(name) == [local |-> name, domain |-> "localhost"]
NoJid == [local |-> 0, domain |-> "None"]

\* an agent as cls(jid, password) builds it
NewAgent(cls, name, fleetmanager) ==
    [name |-> name, cls |-> cls, jid |-> Jid(name), stopped |-> FALSE,
     strategy |-> NoStrategy, fleetmanager |-> fleetmanager]

\* ---- dicts in insertion order ------------------------------------------
Names(d) == [i \in 1 .. Len(d) |-> d[i].name]

\* d[agent.name] = agent
DictSet(d, agent) ==
    IF \E i \in 1 .. Len(d) : d[i].name = agent.name
    THEN [i \in 1 .. Len(d) |-> IF d[i].name = agent.name THEN agent ELSE d[i]]
    ELSE Append(d, agent)

\* the filter of clear_stopped_agents building its agents anew, without strategy
NotStoppedRebuilt(d) ==
    LET kept == SelectSeq(d, LAMBDA a : ~a.stopped)
    IN [i \in 1 .. Len(kept) |-> [kept[i] EXCEPT !.strategy = NoStrategy]]

\* {jid: agent for jid, agent in agents.items() if not agent.stopped}
NotStopped(d) == SelectSeq(d, LAMBDA a : ~a.stopped)

\* for agent in d.values(): agent.add_strategy(strategy)
AddStrategyAll(d, strategy) ==
    [i \in 1 .. Len(d) |-> [d[i] EXCEPT !.strategy = strategy]]

\* for name, agent in d.items(): agent.stop(); agent.stopped = True
StopAll(d) == [i \in 1 .. Len(d) |-> [d[i] EXCEPT !.stopped = TRUE]]

\* ---- the clock -----------------------------------------------------------
\* get_simulation_time(): may return None (NoneT)
get_simulation_time(running, time, init, t) ==
    IF ~Truthy(init) THEN 0
    ELSE IF running THEN t - init
    ELSE time

\* stop_agents, lines 656-657: the frozen elapsed time after the call
FrozenTime(time, init, t) ==
    IF ~Truthy(time)
    THEN (IF Truthy(init) THEN t - init ELSE 0)
    ELSE time

\* ---- get_stats -----------------------------------------------------------
\* the values of config.max_time: None, or a number of time units
MaxTimes == {NoneT, 0, 1}

\* "{0:.2f}".format(x) for a whole number x
Format2f(x) == ToString(x) \o ".00"

\* time_is_out(): get_simulation_time() > max_time; None > number is a TypeError
time_is_out(elapsed, max_time) ==
    IF elapsed = NoneT
    THEN [result |-> "TypeError", v |-> FALSE]
    ELSE [result |-> "ok", v |-> elapsed > max_time]

\* is_simulation_finish(): all customers are in their destination
\* (in_destination: what all([...is_in_destination()...]) gives), False with
\* no customers
is_simulation_finish(customers, in_destination) ==
    IF Len(customers) > 0 THEN in_destination ELSE FALSE

\* is_simulation_finished()
is_simulation_finished(customers, elapsed, max_time, in_destination) ==
    IF max_time = NoneT
    THEN [result |-> "ok", v |-> FALSE]
    ELSE LET out == time_is_out(elapsed, max_time)
         IN IF out.result # "ok" THEN out
            ELSE [result |-> "ok",
                  v |-> out.v \/ is_simulation_finish(customers, in_destination)]

\* get_stats(): waiting and total are the averages over the customers (avg_waiting
\* and avg_total, whole numbers here) when there are customers
get_stats(customers, running, elapsed, max_time, avg_waiting, avg_total, in_destination) ==
    LET waiting == IF Len(customers) > 0 THEN avg_waiting ELSE 0
        total == IF Len(customers) > 0 THEN avg_total ELSE 0
        finished == is_simulation_finished(customers, elapsed, max_time, in_destination)
    IN [result |-> finished.result,
        waiting |-> Format2f(waiting),
        totaltime |-> Format2f(total),
        finished |-> finished.v,
        is_running |-> running]

\* ---- the manager generator ---------------------------------------------
\* The state of the generator object managers_generator() returns:
\*   created : the body has not run (no next yet); it holds only self
\*   first   : itertools.cycle is in its first pass over the iterator of
\*             manager_agents.values(); live says that the dict it iterates
\*             is still the one self.get("manager_agents") returns, dict holds
\*             the keys of a dict that was replaced since; used is the size the
\*             dict had when the iterator was made; pos counts the items taken
\*   cycling : cycle replays the items it saved; pos is the last one returned
\*   done    : the generator has ended (by return or by an exception)
GenCreated ==
    [st |-> "created", live |-> FALSE, dict |-> <<>>, used |-> 0, pos |-> 0,
     saved |-> <<>>]
GenDone ==
    [st |-> "done", live |-> FALSE, dict |-> <<>>, used |-> 0, pos |-> 0,
     saved |-> <<>>]

\* cycle replays the saved items from the last one
RestartPosLast(saved) == Len(saved)

\* itertools.cycle, its iterator exhausted: the saved item it replays first
RestartPos(saved) == 1

\* next(self.manager_generator) with manager_agents = managers
GenNext(g, managers) ==
    LET g1 == IF g.st = "created"
              THEN [st |-> "first", live |-> TRUE, dict |-> <<>>,
                    used |-> Len(managers), pos |-> 0, saved |-> <<>>]
              ELSE g
        D == IF g1.live THEN Names(managers) ELSE g1.dict
    IN CASE g1.st = "done" ->
              [result |-> "StopIteration", jid |-> NoJid, gen |-> GenDone]
         [] g1.st = "cycling" ->
              LET p == (g1.pos % Len(g1.saved)) + 1
              IN [result |-> "ok", jid |-> Jid(g1.saved[p]),
                  gen |-> [g1 EXCEPT !.pos = p]]
         [] OTHER ->
              IF Len(D) # g1.used
              THEN \* dictionary changed size during iteration
                   [result |-> "RuntimeError", jid |-> NoJid, gen |-> GenDone]
              ELSE IF g1.pos < Len(D)
              THEN [result |-> "ok", jid |-> Jid(D[g1.pos + 1]),
                    gen |-> [g1 EXCEPT !.pos = g1.pos + 1,
                                       !.saved = Append(g1.saved, D[g1.pos + 1])]]
              ELSE IF g1.saved = <<>>
              THEN [result |-> "StopIteration", jid |-> NoJid, gen |-> GenDone]
              ELSE [result |-> "ok", jid |-> Jid(g1.saved[RestartPos(g1.saved)]),
                    gen |-> [st |-> "cycling", live |-> FALSE, dict |-> <<>>,
                             used |-> 0, pos |-> RestartPos(g1.saved),
                             saved |-> g1.saved]]

\* self.set("manager_agents", <a new dict>): an iterator made over the old
\* dict keeps the old dict
Detach(g, managers) ==
    IF g.st = "first" /\ g.live
    THEN [g EXCEPT !.live = FALSE, !.dict = Names(managers)]
    ELSE g

\* manager_assignment(): builds the generator object; no statement of it reads
\* manager_agents or raises
ManagerAssignmentResult(managers) == "ok"

ManagerAssignment ==
    /\ manager_generator' = GenCreated
    /\ nextLog' = <<>>
    /\ stable' = TRUE
    /\ simCall' = [op |-> "manager_assignment",
                   result |-> ManagerAssignmentResult(manager_agents)]
    /\ UNCHANGED <<agentVars, clockVars, kill_simulator, taskVars, now>>

\* ---- creating agents ---------------------------------------------------
Max(a, b) == IF a > b THEN a ELSE b

\* iterations = [20] * (number // 20); iterations.append(number % 20)
Iterations(number) ==
    LET n == Max(number, 0)
    IN [i \in 1 .. (n \div ChunkSize) |-> ChunkSize] \o <<n % ChunkSize>>

RECURSIVE SumSeq(_)
SumSeq(seq) == IF seq = <<>> THEN 0 ELSE Head(seq) + SumSeq(Tail(seq))

\* the count of a loop that never looks at the kill flag
BatchCountIgnoresKill(number, kill) == SumSeq(Iterations(number))

\* how many coroutines one create_agents_batch call submits when the kill
\* flag has the value kill for the whole call: every chunk breaks at its first
\* agent when the flag is set
BatchCount(number, kill) == IF kill THEN 0 ELSE SumSeq(Iterations(number))

Task(cls, name) == [cls |-> cls, name |-> name, fleetmanager |-> NoJid]

\* the coroutines create_agents_batch(cls, number) submits, the names generated
\* so far being 1 .. first
BatchTasks(cls, number, kill, first) ==
    [i \in 1 .. BatchCount(number, kill) |-> Task(cls, first + i)]

CreateAgentsBatchOf(classes, limit) ==
    \E cls \in classes, number \in BatchNumbers :
        /\ nextName + BatchCount(number, kill_simulator) <= limit
        /\ pending' = pending \o BatchTasks(cls, number, kill_simulator, nextName)
        /\ nextName' = nextName + BatchCount(number, kill_simulator)
        /\ simCall' = [op |-> "create_agents_batch", result |-> "ok"]
        /\ UNCHANGED <<agentVars, clockVars, kill_simulator, cursorVars, inflight,
                       batch, now>>

CreateAgentsBatch == CreateAgentsBatchOf(AgentClasses, MaxAgents)

\* ---- create_agents_batch, one pass of its inner loop at a time ---------
\* the call of create_agents_batch that is in its loop: the class and number it
\* was called with, its iterations list, the chunk it is in (c), how many
\* passes of the chunk's range it has made (k), whether it has taken the break,
\* and the number of names generated when it was called
NoBatch ==
    [st |-> "idle", cls |-> CustomerAgent, number |-> 0, iterations |-> <<>>,
     c |-> 1, k |-> 0, broke |-> FALSE, first |-> 0]

\* the batch sizes create_agents_batch is called with, one more than a chunk
BatchSizes == {ChunkSize + 1}
\* coroutines suspended in await agent.start at one time
MaxInflight == 1

\* create_agents_batch(cls, number) up to its loop
BatchBegin ==
    /\ batch.st = "idle"
    /\ \E cls \in {CustomerAgent}, number \in BatchSizes :
         batch' = [st |-> "loop", cls |-> cls, number |-> number,
                   iterations |-> Iterations(number), c |-> 1, k |-> 0,
                   broke |-> FALSE, first |-> nextName]
    /\ simCall' = [op |-> "create_agents_batch", result |-> "running"]
    /\ UNCHANGED <<agentVars, clockVars, kill_simulator, cursorVars, pending,
                   inflight, nextName, now>>

\* the loop with `continue` in the place of `break`: a pass that finds the flag
\* set skips its own agent only
BatchStepContinue ==
    /\ batch.st = "loop"
    /\ IF batch.c > Len(batch.iterations)
       THEN /\ batch' = [batch EXCEPT !.st = "returned"]
            /\ simCall' = [op |-> "create_agents_batch", result |-> "ok"]
            /\ UNCHANGED <<pending, nextName>>
       ELSE IF batch.k >= batch.iterations[batch.c]
       THEN /\ batch' = [batch EXCEPT !.c = @ + 1, !.k = 0]
            /\ UNCHANGED <<pending, nextName, simCall>>
       ELSE IF kill_simulator
       THEN /\ batch' = [batch EXCEPT !.k = @ + 1, !.broke = TRUE]
            /\ UNCHANGED <<pending, nextName, simCall>>
       ELSE /\ batch' = [batch EXCEPT !.k = @ + 1]
            /\ pending' = Append(pending, Task(batch.cls, nextName + 1))
            /\ nextName' = nextName + 1
            /\ UNCHANGED simCall
    /\ UNCHANGED <<agentVars, clockVars, kill_simulator, cursorVars, inflight, now>>

\* one pass of `for _ in range(iteration)`: under self.lock, break when the
\* kill flag is set, else create_agent submits the coroutine; a range that is
\* exhausted, or left by break, gives way to the next chunk; the call returns
\* after the last chunk
BatchStep ==
    /\ batch.st = "loop"
    /\ IF batch.c > Len(batch.iterations)
       THEN /\ batch' = [batch EXCEPT !.st = "returned"]
            /\ simCall' = [op |-> "create_agents_batch", result |-> "ok"]
            /\ UNCHANGED <<pending, nextName>>
       ELSE IF batch.k >= batch.iterations[batch.c]
       THEN /\ batch' = [batch EXCEPT !.c = @ + 1, !.k = 0]
            /\ UNCHANGED <<pending, nextName, simCall>>
       ELSE IF kill_simulator
       THEN /\ batch' = [batch EXCEPT !.c = @ + 1, !.k = 0, !.broke = TRUE]
            /\ UNCHANGED <<pending, nextName, simCall>>
       ELSE /\ batch' = [batch EXCEPT !.k = @ + 1]
            /\ pending' = Append(pending, Task(batch.cls, nextName + 1))
            /\ nextName' = nextName + 1
            /\ UNCHANGED simCall
    /\ UNCHANGED <<agentVars, clockVars, kill_simulator, cursorVars, inflight, now>>

\* async_create_agent up to `await agent.set_position` / `await agent.start`:
\* the event loop starts the submitted coroutines in submission order
TaskStart ==
    /\ pending # <<>>
    /\ LET t == Head(pending)
           r == GenNext(manager_generator, manager_agents)
       IN /\ pending' = Tail(pending)
          /\ IF t.cls = TransportAgent
             THEN /\ manager_generator' = r.gen
                  /\ nextLog' = Append(nextLog, [result |-> r.result, jid |-> r.jid])
                  /\ inflight' = IF r.result = "ok"
                                 THEN inflight \cup {[t EXCEPT !.fleetmanager = r.jid]}
                                 ELSE inflight
             ELSE /\ inflight' = inflight \cup {t}
                  /\ UNCHANGED <<manager_generator, nextLog>>
    /\ UNCHANGED <<agentVars, clockVars, kill_simulator, stable, batch, nextName, now,
                   simCall>>

\* async_create_agent without its last two lines: no strategy is added
CreatedStrategyNone(cls, running) == NoStrategy

\* the strategy an agent holds when async_create_agent returns
CreatedStrategy(cls, running) == IF running THEN StrategyOf(cls) ELSE NoStrategy

\* async_create_agent after `await agent.start`: add_manager / add_transport /
\* add_customer, then add_strategy when the simulation is running
TaskFinish ==
    \E t \in inflight :
        LET agent == [NewAgent(t.cls, t.name, t.fleetmanager) EXCEPT
                        !.strategy = CreatedStrategy(t.cls, simulation_running)]
        IN /\ inflight' = inflight \ {t}
           /\ manager_agents' = IF t.cls = FleetManagerAgent
                                THEN DictSet(manager_agents, agent) ELSE manager_agents
           /\ transport_agents' = IF t.cls = TransportAgent
                                  THEN DictSet(transport_agents, agent) ELSE transport_agents
           /\ customer_agents' = IF t.cls = CustomerAgent
                                 THEN DictSet(customer_agents, agent) ELSE customer_agents
           /\ stable' = (stable /\ Names(manager_agents') = Names(manager_agents))
           /\ UNCHANGED <<clockVars, kill_simulator, manager_generator, nextLog,
                          pending, batch, nextName, now, simCall>>

\* ---- clear_agents / clear_stopped_agents / stop_agents -----------------
ClearAgents ==
    /\ manager_agents' = <<>>
    /\ transport_agents' = <<>>
    /\ customer_agents' = <<>>
    /\ simulation_time' = NoneT
    /\ simulation_init_time' = NoneT
    /\ manager_generator' = Detach(manager_generator, manager_agents)
    /\ stable' = (stable /\ manager_agents = <<>>)
    /\ simCall' = [op |-> "clear_agents", result |-> "ok"]
    /\ UNCHANGED <<simulation_running, kill_simulator, nextLog, taskVars, now>>

\* what clear_stopped_agents writes
ClearStoppedEffect ==
    /\ manager_agents' = NotStopped(manager_agents)
    /\ transport_agents' = NotStopped(transport_agents)
    /\ customer_agents' = NotStopped(customer_agents)
    /\ simulation_time' = NoneT
    /\ simulation_init_time' = NoneT
    /\ manager_generator' = Detach(manager_generator, manager_agents)
    /\ stable' = (stable /\ Names(NotStopped(manager_agents)) = Names(manager_agents))

ClearStoppedAgents ==
    /\ ClearStoppedEffect
    /\ simCall' = [op |-> "clear_stopped_agents", result |-> "ok"]
    /\ UNCHANGED <<simulation_running, kill_simulator, nextLog, taskVars, now>>

\* stop_agents without its loop over customer_agents
StopAgentsCustomersSkipped(d) == d

\* the collections after stop_agents: the block that stops the managers is
\* commented out (lines 658-663)
\* stop_agents with the block of lines 658-663 in force: the managers are stopped too
StopAgentsManagersStopped(d) == StopAll(d)

StopAgentsManagers(d) == d
StopAgentsTransports(d) == StopAll(d)
StopAgentsCustomers(d) == StopAll(d)

\* what stop_agents writes, self.simulation_time being time when it is called
StopAgentsEffect(time) ==
    /\ kill_simulator' = TRUE
    /\ simulation_running' = FALSE
    /\ simulation_time' = FrozenTime(time, simulation_init_time, now)
    /\ manager_agents' = StopAgentsManagers(manager_agents)
    /\ transport_agents' = StopAgentsTransports(transport_agents)
    /\ customer_agents' = StopAgentsCustomers(customer_agents)
    /\ UNCHANGED simulation_init_time

\* stop_agents_controller
StopAgents ==
    /\ StopAgentsEffect(simulation_time)
    /\ simCall' = [op |-> "stop_agents", result |-> "ok"]
    /\ UNCHANGED <<cursorVars, taskVars, now>>

\* stop(): "{0:.1f}".format(None) raises TypeError before stop_agents is called
Stop ==
    LET t == get_simulation_time(simulation_running, simulation_time,
                                 simulation_init_time, now)
    IN IF t = NoneT
       THEN /\ simulation_time' = t
            /\ simCall' = [op |-> "stop", result |-> "TypeError"]
            /\ UNCHANGED <<agentVars, simulation_running, simulation_init_time,
                           kill_simulator, cursorVars, taskVars, now>>
       ELSE /\ StopAgentsEffect(t)
            /\ simCall' = [op |-> "stop", result |-> "ok"]
            /\ UNCHANGED <<cursorVars, taskVars, now>>

\* clean_controller: stop_agents(); clear_agents()
Clean ==
    /\ kill_simulator' = TRUE
    /\ simulation_running' = FALSE
    /\ manager_agents' = <<>>
    /\ transport_agents' = <<>>
    /\ customer_agents' = <<>>
    /\ simulation_time' = NoneT
    /\ simulation_init_time' = NoneT
    /\ manager_generator' = Detach(manager_generator, manager_agents)
    /\ stable' = (stable /\ manager_agents = <<>>)
    /\ simCall' = [op |-> "clean", result |-> "ok"]
    /\ UNCHANGED <<nextLog, taskVars, now>>

\* ---- run ---------------------------------------------------------------
\* run(): clear_stopped_agents(), then, when the simulation is not running,
\* the strategies are added and the clock is started
Run ==
    /\ manager_generator' = Detach(manager_generator, manager_agents)
    /\ stable' = (stable /\ Names(NotStopped(manager_agents)) = Names(manager_agents))
    /\ simulation_time' = NoneT
    /\ IF ~simulation_running
       THEN /\ kill_simulator' = FALSE
            /\ manager_agents' =
                 AddStrategyAll(NotStopped(manager_agents), StrategyOf(FleetManagerAgent))
            /\ transport_agents' =
                 AddStrategyAll(NotStopped(transport_agents), StrategyOf(TransportAgent))
            /\ customer_agents' =
                 AddStrategyAll(NotStopped(customer_agents), StrategyOf(CustomerAgent))
            /\ simulation_running' = TRUE
            /\ simulation_init_time' = now
       ELSE /\ manager_agents' = NotStopped(manager_agents)
            /\ transport_agents' = NotStopped(transport_agents)
            /\ customer_agents' = NotStopped(customer_agents)
            /\ simulation_init_time' = NoneT
            /\ UNCHANGED <<kill_simulator, simulation_running>>
    /\ simCall' = [op |-> "run", result |-> "ok"]
    /\ UNCHANGED <<nextLog, taskVars, now>>

\* generate_controller: two batches, then clear_stopped_agents()
Generate ==
    \E ntaxis \in BatchNumbers, npassengers \in BatchNumbers :
        LET nt == BatchCount(ntaxis, kill_simulator)
            np == BatchCount(npassengers, kill_simulator)
        IN /\ nextName + nt + np <= MaxAgents
           /\ pending' = pending
                  \o BatchTasks(TransportAgent, ntaxis, kill_simulator, nextName)
                  \o BatchTasks(CustomerAgent, npassengers, kill_simulator, nextName + nt)
           /\ nextName' = nextName + nt + np
           /\ ClearStoppedEffect
           /\ simCall' = [op |-> "generate", result |-> "ok"]
           /\ UNCHANGED <<simulation_running, kill_simulator, nextLog, inflight, batch,
                          now>>

\* time passes
Tick ==
    /\ now < MaxTime
    /\ now' = now + 1
    /\ UNCHANGED <<agentVars, clockVars, kill_simulator, cursorVars, taskVars,
                   simCall>>

\* ---- the calling thread and the event loop, one statement at a time -----
\* run, stop_agents, clear_stopped_agents and clear_agents are called from a
\* thread of their own (ctl) while the event loop runs the coroutines
\* async_create_agent.  A step is one statement of one of the two threads.
\* agents whose names are generated in one behaviour of SpecThreads
MaxThreadAgents == 2

\* the three collections in the order the code goes through them
Collections == <<FleetManagerAgent, TransportAgent, CustomerAgent>>
CollectionOf(cls) == CHOOSE c \in 1 .. 3 : Collections[c] = cls

\* self.get(...) of the c-th collection
AgentsOf(c) ==
    CASE c = 1 -> manager_agents
      [] c = 2 -> transport_agents
      [] OTHER -> customer_agents

\* the thread is in no call; the event loop is in no add_*
Idle == [op |-> "idle", pc |-> "idle", c |-> 0, it |-> 0, n |-> 0, acc |-> {}]
NotAdding == [st |-> "idle", cls |-> CustomerAgent, name |-> 0, fleetmanager |-> NoJid]

\* the agents of the c-th collection are changed in place (the dict is the same
\* object, of the same size)
InPlace(c, d) ==
    /\ manager_agents' = IF c = 1 THEN d ELSE manager_agents
    /\ transport_agents' = IF c = 2 THEN d ELSE transport_agents
    /\ customer_agents' = IF c = 3 THEN d ELSE customer_agents

\* self.set(...) of the c-th collection: a new dict takes its place
Replaced(c, d) ==
    /\ InPlace(c, d)
    /\ manager_generator' = IF c = 1 THEN Detach(manager_generator, manager_agents)
                            ELSE manager_generator
    /\ stable' = (stable /\ (c = 1 => Names(d) = Names(manager_agents)))

\* iter(d.items()) of the c-th collection: the iterator remembers the size
IterOver(c) == [ctl EXCEPT !.c = c, !.it = 0, !.n = Len(AgentsOf(c)), !.acc = {}]

\* next() of a dict iterator raises RuntimeError when the size of the dict is
\* not the one it remembers
SizeChanged == Len(AgentsOf(ctl.c)) # ctl.n

\* the call returns, or an exception leaves it: a `with` block releases its lock
Return(result) ==
    /\ ctl' = Idle
    /\ simCall' = [op |-> ctl.op, result |-> result]
    /\ simulation_mutex' = IF simulation_mutex = "ctl" THEN "free" ELSE simulation_mutex
    /\ lock' = IF lock = "ctl" THEN "free" ELSE lock

\* the thread calls run(), stop_agents(), clear_stopped_agents() or clear_agents()
CtlCall ==
    /\ ctl.op = "idle"
    /\ \E op \in {"run", "stop_agents", "clear_stopped_agents", "clear_agents"} :
          ctl' = [Idle EXCEPT !.op = op,
                              !.c = 1,
                              !.pc = CASE op = "stop_agents" -> "kill"
                                       [] op = "clear_agents" -> "clear"
                                       [] OTHER -> "get"]
    /\ UNCHANGED <<agentVars, clockVars, kill_simulator, cursorVars, taskVars, now,
                   simCall, simulation_mutex, lock, adding>>

\* clear_stopped_agents: agents = self.get(...), and the comprehension begins
CtlGet ==
    /\ ctl.pc = "get"
    /\ ctl' = [IterOver(ctl.c) EXCEPT !.pc = "filter"]
    /\ UNCHANGED <<agentVars, clockVars, kill_simulator, cursorVars, taskVars, now,
                   simCall, simulation_mutex, lock, adding>>

\* clear_stopped_agents: one pass of `for jid, agent in agents.items() if not
\* agent.stopped`
CtlFilter ==
    /\ ctl.pc = "filter"
    /\ IF SizeChanged
       THEN Return("RuntimeError")
       ELSE /\ ctl' = IF ctl.it < ctl.n
                      THEN LET agent == AgentsOf(ctl.c)[ctl.it + 1]
                           IN [ctl EXCEPT !.it = @ + 1,
                                          !.acc = IF agent.stopped THEN @
                                                  ELSE @ \cup {agent.name}]
                      ELSE [ctl EXCEPT !.pc = "set"]
            /\ UNCHANGED <<simCall, simulation_mutex, lock>>
    /\ UNCHANGED <<agentVars, clockVars, kill_simulator, cursorVars, taskVars, now,
                   adding>>

\* clear_stopped_agents: self.set(...) of the dict the comprehension built
CtlSet ==
    /\ ctl.pc = "set"
    /\ Replaced(ctl.c, SelectSeq(AgentsOf(ctl.c), LAMBDA a : a.name \in ctl.acc))
    /\ ctl' = IF ctl.c < 3 THEN [ctl EXCEPT !.pc = "get", !.c = @ + 1]
              ELSE [ctl EXCEPT !.pc = "clock"]
    /\ UNCHANGED <<clockVars, kill_simulator, nextLog, taskVars, now, simCall,
                   simulation_mutex, lock, adding>>

\* clear_stopped_agents: the two assignments of None, lines 647-648; run goes on
CtlClock ==
    /\ ctl.pc = "clock"
    /\ simulation_time' = NoneT
    /\ simulation_init_time' = NoneT
    /\ IF ctl.op = "run"
       THEN /\ ctl' = [ctl EXCEPT !.pc = "check"]
            /\ UNCHANGED <<simCall, simulation_mutex, lock>>
       ELSE Return("ok")
    /\ UNCHANGED <<agentVars, simulation_running, kill_simulator, cursorVars, taskVars,
                   now, adding>>

\* run: if not self.simulation_running: self.kill_simulator.clear()
CtlRunCheck ==
    /\ ctl.pc = "check"
    /\ IF ~simulation_running
       THEN /\ kill_simulator' = FALSE
            /\ ctl' = [ctl EXCEPT !.pc = "acquire_mutex"]
            /\ UNCHANGED <<simCall, simulation_mutex, lock>>
       ELSE /\ Return("ok")
            /\ UNCHANGED kill_simulator
    /\ UNCHANGED <<agentVars, clockVars, cursorVars, taskVars, now, adding>>

\* run: with self.simulation_mutex, and the first loop begins
CtlAcquireMutex ==
    /\ ctl.pc = "acquire_mutex"
    /\ simulation_mutex = "free"
    /\ simulation_mutex' = "ctl"
    /\ ctl' = [IterOver(1) EXCEPT !.pc = "inject"]
    /\ UNCHANGED <<agentVars, clockVars, kill_simulator, cursorVars, taskVars, now,
                   simCall, lock, adding>>

\* run: one pass of one of the three loops that add the strategies
CtlInject ==
    /\ ctl.pc = "inject"
    /\ IF SizeChanged
       THEN /\ Return("RuntimeError")
            /\ UNCHANGED agentVars
       ELSE /\ IF ctl.it < ctl.n
               THEN /\ InPlace(ctl.c, [AgentsOf(ctl.c) EXCEPT ![ctl.it + 1].strategy =
                                          StrategyOf(Collections[ctl.c])])
                    /\ ctl' = [ctl EXCEPT !.it = @ + 1]
               ELSE /\ ctl' = IF ctl.c < 3
                              THEN [IterOver(ctl.c + 1) EXCEPT !.pc = "inject"]
                              ELSE [ctl EXCEPT !.pc = "release_mutex"]
                    /\ UNCHANGED agentVars
            /\ UNCHANGED <<simCall, simulation_mutex, lock>>
    /\ UNCHANGED <<clockVars, kill_simulator, cursorVars, taskVars, now, adding>>

\* run: the end of the with block
CtlReleaseMutex ==
    /\ ctl.pc = "release_mutex"
    /\ simulation_mutex' = "free"
    /\ ctl' = [ctl EXCEPT !.pc = "start"]
    /\ UNCHANGED <<agentVars, clockVars, kill_simulator, cursorVars, taskVars, now,
                   simCall, lock, adding>>

\* run: self.simulation_running = True; self.simulation_init_time = time.time()
CtlStart ==
    /\ ctl.pc = "start"
    /\ simulation_running' = TRUE
    /\ simulation_init_time' = now
    /\ Return("ok")
    /\ UNCHANGED <<agentVars, simulation_time, kill_simulator, cursorVars, taskVars,
                   now, adding>>

\* stop_agents: lines 654-657
CtlKill ==
    /\ ctl.pc = "kill"
    /\ kill_simulator' = TRUE
    /\ simulation_running' = FALSE
    /\ simulation_time' = FrozenTime(simulation_time, simulation_init_time, now)
    /\ ctl' = [ctl EXCEPT !.pc = "acquire_lock", !.c = 2]
    /\ UNCHANGED <<agentVars, simulation_init_time, cursorVars, taskVars, now, simCall,
                   simulation_mutex, lock, adding>>

\* stop_agents: with self.lock, and the loop over the collection begins
CtlAcquireLock ==
    /\ ctl.pc = "acquire_lock"
    /\ lock = "free"
    /\ lock' = "ctl"
    /\ ctl' = [IterOver(ctl.c) EXCEPT !.pc = "sweep"]
    /\ UNCHANGED <<agentVars, clockVars, kill_simulator, cursorVars, taskVars, now,
                   simCall, simulation_mutex, adding>>

\* stop_agents: one pass of `for name, agent in ....items()`: agent.stop();
\* agent.stopped = True
CtlSweep ==
    /\ ctl.pc = "sweep"
    /\ IF SizeChanged
       THEN /\ Return("RuntimeError")
            /\ UNCHANGED agentVars
       ELSE /\ IF ctl.it < ctl.n
               THEN /\ InPlace(ctl.c, [AgentsOf(ctl.c) EXCEPT ![ctl.it + 1].stopped = TRUE])
                    /\ ctl' = [ctl EXCEPT !.it = @ + 1]
               ELSE /\ ctl' = [ctl EXCEPT !.pc = "release_lock"]
                    /\ UNCHANGED agentVars
            /\ UNCHANGED <<simCall, simulation_mutex, lock>>
    /\ UNCHANGED <<clockVars, kill_simulator, cursorVars, taskVars, now, adding>>

\* stop_agents: the end of a with block; the customers follow the transports
CtlReleaseLock ==
    /\ ctl.pc = "release_lock"
    /\ IF ctl.c = 2
       THEN /\ lock' = "free"
            /\ ctl' = [ctl EXCEPT !.pc = "acquire_lock", !.c = 3]
            /\ UNCHANGED <<simCall, simulation_mutex>>
       ELSE Return("ok")
    /\ UNCHANGED <<agentVars, clockVars, kill_simulator, cursorVars, taskVars, now,
                   adding>>

\* clear_agents
CtlClearAgents ==
    /\ ctl.pc = "clear"
    /\ manager_agents' = <<>>
    /\ transport_agents' = <<>>
    /\ customer_agents' = <<>>
    /\ simulation_time' = NoneT
    /\ simulation_init_time' = NoneT
    /\ manager_generator' = Detach(manager_generator, manager_agents)
    /\ stable' = (stable /\ manager_agents = <<>>)
    /\ Return("ok")
    /\ UNCHANGED <<simulation_running, kill_simulator, nextLog, taskVars, now, adding>>

\* create_agents_batch, called by the thread between two of its other calls
CtlCreateAgentsBatch ==
    /\ ctl.op = "idle"
    /\ CreateAgentsBatchOf({CustomerAgent}, MaxThreadAgents)
    /\ UNCHANGED threadVars

\* async_create_agent up to `await agent.start`
LoopTaskStart ==
    /\ TaskStart
    /\ UNCHANGED threadVars

\* add_manager / add_transport / add_customer: with self.simulation_mutex
AddAcquire ==
    /\ adding.st = "idle"
    /\ simulation_mutex = "free"
    /\ \E t \in inflight :
          /\ inflight' = inflight \ {t}
          /\ adding' = [st |-> "locked", cls |-> t.cls, name |-> t.name,
                        fleetmanager |-> t.fleetmanager]
    /\ simulation_mutex' = "loop"
    /\ UNCHANGED <<agentVars, clockVars, kill_simulator, cursorVars, pending, batch,
                   nextName, now, simCall, lock, ctl>>

\* add_*: self.get(...)[agent.name] = agent
AddInsert ==
    /\ adding.st = "locked"
    /\ LET c == CollectionOf(adding.cls)
       IN InPlace(c, DictSet(AgentsOf(c),
                             NewAgent(adding.cls, adding.name, adding.fleetmanager)))
    /\ stable' = (stable /\ Names(manager_agents') = Names(manager_agents))
    /\ adding' = [adding EXCEPT !.st = "inserted"]
    /\ UNCHANGED <<clockVars, kill_simulator, manager_generator, nextLog, taskVars, now,
                   simCall, simulation_mutex, lock, ctl>>

\* add_*: the end of the with block
AddRelease ==
    /\ adding.st = "inserted"
    /\ simulation_mutex' = "free"
    /\ adding' = [adding EXCEPT !.st = "released"]
    /\ UNCHANGED <<agentVars, clockVars, kill_simulator, cursorVars, taskVars, now,
                   simCall, lock, ctl>>

\* the agent `agent` of the coroutine gets the strategy: the object is the
\* same whether a collection holds it or not
WithStrategy(d, name, strategy) ==
    [i \in 1 .. Len(d) |-> IF d[i].name = name THEN [d[i] EXCEPT !.strategy = strategy]
                           ELSE d[i]]

\* async_create_agent: if self.simulation_running: agent.add_strategy(strategy)
AddStrategy ==
    /\ adding.st = "released"
    /\ LET c == CollectionOf(adding.cls)
       IN InPlace(c, IF simulation_running
                     THEN WithStrategy(AgentsOf(c), adding.name,
                                       CreatedStrategy(adding.cls, TRUE))
                     ELSE AgentsOf(c))
    /\ adding' = NotAdding
    /\ UNCHANGED <<clockVars, kill_simulator, cursorVars, taskVars, now, simCall,
                   simulation_mutex, lock, ctl>>

\* SimulatorAgent.__init__: the batches of the configuration are submitted,
\* manager_assignment() builds the generator, and clear_agents() sets the
\* three collections to empty dicts
SimInit ==
    /\ manager_agents = <<>>
    /\ transport_agents = <<>>
    /\ customer_agents = <<>>
    /\ simulation_running = FALSE
    /\ simulation_time = NoneT
    /\ simulation_init_time = NoneT
    /\ kill_simulator = FALSE
    /\ manager_generator = GenCreated
    /\ \E num_managers \in InitManagers :
          /\ pending = BatchTasks(FleetManagerAgent, num_managers, FALSE, 0)
          /\ nextName = num_managers
    /\ inflight = {}
    /\ batch = NoBatch
    /\ now = 1
    /\ simCall = [op |-> "__init__", result |-> "ok"]
    /\ nextLog = <<>>
    /\ stable = TRUE
    /\ simulation_mutex = "free"
    /\ lock = "free"
    /\ ctl = Idle
    /\ adding = NotAdding

Init == DirInit /\ SimInit

NextDirectory ==
    \/ DeliverRegister
    \/ DeliverLookup
    \/ RegistrationRun
    \/ DirectoryStrategyRun
    \/ RemoveService

SpecDirectory == Init /\ [][NextDirectory]_vars

NextSim ==
    \/ (Run /\ UNCHANGED <<dirVars, threadVars>>)
    \/ (Stop /\ UNCHANGED <<dirVars, threadVars>>)
    \/ (StopAgents /\ UNCHANGED <<dirVars, threadVars>>)
    \/ (Clean /\ UNCHANGED <<dirVars, threadVars>>)
    \/ (ClearStoppedAgents /\ UNCHANGED <<dirVars, threadVars>>)
    \/ (ClearAgents /\ UNCHANGED <<dirVars, threadVars>>)
    \/ (Generate /\ UNCHANGED <<dirVars, threadVars>>)
    \/ (CreateAgentsBatch /\ UNCHANGED <<dirVars, threadVars>>)
    \/ (ManagerAssignment /\ UNCHANGED <<dirVars, threadVars>>)
    \/ (TaskStart /\ UNCHANGED <<dirVars, threadVars>>)
    \/ (TaskFinish /\ UNCHANGED <<dirVars, threadVars>>)
    \/ (Tick /\ UNCHANGED <<dirVars, threadVars>>)

SpecSim == Init /\ [][NextSim]_vars

\* the manager generator, and what changes the collection it reads
NextCursor ==
    \/ (CreateAgentsBatchOf({FleetManagerAgent, TransportAgent}, MaxCursorAgents)
          /\ UNCHANGED <<dirVars, threadVars>>)
    \/ (ManagerAssignment /\ UNCHANGED <<dirVars, threadVars>>)
    \/ (TaskStart /\ UNCHANGED <<dirVars, threadVars>>)
    \/ (TaskFinish /\ UNCHANGED <<dirVars, threadVars>>)
    \/ (ClearStoppedAgents /\ UNCHANGED <<dirVars, threadVars>>)
    \/ (ClearAgents /\ UNCHANGED <<dirVars, threadVars>>)

SpecCursor == Init /\ [][NextCursor]_vars

\* a batch of more than one chunk, the kill flag set by stop_agents while the
\* batch is being created
NextBatch ==
    \/ (BatchBegin /\ UNCHANGED <<dirVars, threadVars>>)
    \/ (BatchStep /\ UNCHANGED <<dirVars, threadVars>>)
    \/ (StopAgents /\ UNCHANGED <<dirVars, threadVars>>)
    \/ (Cardinality(inflight) < MaxInflight /\ TaskStart /\ UNCHANGED <<dirVars, threadVars>>)
    \/ (TaskFinish /\ UNCHANGED <<dirVars, threadVars>>)

SpecBatch == Init /\ [][NextBatch]_vars

\* the loop of create_agents_batch, with stop_agents setting the kill flag and
\* run clearing it while the loop runs; the coroutines the loop submits stay
\* pending
NextChunks ==
    \/ (BatchBegin /\ UNCHANGED <<dirVars, threadVars>>)
    \/ (BatchStep /\ UNCHANGED <<dirVars, threadVars>>)
    \/ (StopAgents /\ UNCHANGED <<dirVars, threadVars>>)
    \/ (Run /\ UNCHANGED <<dirVars, threadVars>>)

SpecChunks == Init /\ [][NextChunks]_vars

\* batches of the three classes created while others are in flight, nothing
\* stopped and nothing cleared, the generator being the one __init__ built
NextCreate ==
    \/ (CreateAgentsBatchOf(AgentClasses, MaxCreateAgents) /\ UNCHANGED <<dirVars, threadVars>>)
    \/ (TaskStart /\ UNCHANGED <<dirVars, threadVars>>)
    \/ (TaskFinish /\ UNCHANGED <<dirVars, threadVars>>)

SpecCreate == Init /\ [][NextCreate]_vars

\* the calling thread and the event loop, statement by statement
NextThreads ==
    \/ (CtlCall /\ UNCHANGED dirVars)
    \/ (CtlGet /\ UNCHANGED dirVars)
    \/ (CtlFilter /\ UNCHANGED dirVars)
    \/ (CtlSet /\ UNCHANGED dirVars)
    \/ (CtlClock /\ UNCHANGED dirVars)
    \/ (CtlRunCheck /\ UNCHANGED dirVars)
    \/ (CtlAcquireMutex /\ UNCHANGED dirVars)
    \/ (CtlInject /\ UNCHANGED dirVars)
    \/ (CtlReleaseMutex /\ UNCHANGED dirVars)
    \/ (CtlStart /\ UNCHANGED dirVars)
    \/ (CtlKill /\ UNCHANGED dirVars)
    \/ (CtlAcquireLock /\ UNCHANGED dirVars)
    \/ (CtlSweep /\ UNCHANGED dirVars)
    \/ (CtlReleaseLock /\ UNCHANGED dirVars)
    \/ (CtlClearAgents /\ UNCHANGED dirVars)
    \/ (CtlCreateAgentsBatch /\ UNCHANGED dirVars)
    \/ (LoopTaskStart /\ UNCHANGED dirVars)
    \/ (AddAcquire /\ UNCHANGED dirVars)
    \/ (AddInsert /\ UNCHANGED dirVars)
    \/ (AddRelease /\ UNCHANGED dirVars)
    \/ (AddStrategy /\ UNCHANGED dirVars)

SpecThreads == Init /\ [][NextThreads]_vars

\* ========================================================================
\* Properties of the directory
\* ========================================================================
Range(seq) == {seq[i] : i \in 1 .. Len(seq)}

IsWellFormedRegistration(msg) ==
    msg.performative = REQUEST_PERFORMATIVE /\ msg.body \in WellFormedBodies

IsMalformedRegistration(msg) ==
    msg.performative = REQUEST_PERFORMATIVE /\ msg.body \notin WellFormedBodies

\* the jids of the well-formed registration REQUESTs of log under type ty, in order
RECURSIVE RegisteredUnder(_, _)
RegisteredUnder(log, ty) ==
    IF log = <<>> THEN <<>>
    ELSE LET m == Head(log)
             rest == RegisteredUnder(Tail(log), ty)
         IN IF IsWellFormedRegistration(m) /\ m.body.v.type = ty
            THEN <<m.body.v.jid>> \o rest
            ELSE rest

\* this step is one iteration of RegistrationBehaviour.run that received a message
RegistrationStep == regInbox # <<>> /\ regInbox' = Tail(regInbox)

\* this step is one iteration of DirectoryStrategyBehaviour.run that received a message
LookupStep == reqInbox # <<>> /\ reqInbox' = Tail(reqInbox)

\* the Messages sent in this step
NewReplies == SubSeq(outbox', Len(outbox) + 1, Len(outbox'))

\* C1: with no deregistration, a lookup REQUEST for a type under which
\* registrations were processed is answered with one INFORM to the sender whose
\* body decodes to exactly the jids registered under the type, in the order the
\* registrations were processed, a jid registered k times appearing k times.
C1_LookupReturnsRegistrations ==
    [][ ( /\ LookupStep
          /\ nRemove = 0
          /\ Head(reqInbox).performative = REQUEST_PERFORMATIVE
          /\ Head(reqInbox).body.k = "text"
          /\ RegisteredUnder(processed, Head(reqInbox).body.s) # <<>> )
        => ( /\ Len(NewReplies) = 1
             /\ NewReplies[1].to = Head(reqInbox).sender
             /\ NewReplies[1].performative = INFORM_PERFORMATIVE
             /\ json_loads(NewReplies[1].body).ok
             /\ json_loads(NewReplies[1].body).t = "list"
             /\ json_loads(NewReplies[1].body).v
                  = RegisteredUnder(processed, Head(reqInbox).body.s) ) ]_vars

\* a lookup was answered with a jid that was registered twice, listed twice
C1_Witness ==
    /\ nRemove = 0
    /\ \E i \in 1 .. Len(outbox) :
         /\ outbox[i].performative = INFORM_PERFORMATIVE
         /\ Len(outbox[i].body.v) = 2
         /\ outbox[i].body.v[1] = outbox[i].body.v[2]

\* C2: a lookup REQUEST for a type with no entry in the registry map is answered
\* with exactly one empty-bodied CANCEL to the sender and leaves the map as it
\* was; a lookup for a type that has an entry is never answered with CANCEL.
C2_UnknownTypeIsCancelled ==
    [][ ( LookupStep /\ Head(reqInbox).performative = REQUEST_PERFORMATIVE )
        => IF BodyKey(Head(reqInbox).body) \notin DOMAIN service_agents
           THEN /\ Len(NewReplies) = 1
                /\ NewReplies[1].to = Head(reqInbox).sender
                /\ NewReplies[1].performative = CANCEL_PERFORMATIVE
                /\ NewReplies[1].body = NoBody
                /\ service_agents' = service_agents
           ELSE \A i \in 1 .. Len(NewReplies) :
                   NewReplies[i].performative # CANCEL_PERFORMATIVE ]_vars

\* both answers were given: a CANCEL for a type with no entry while another
\* type has one, and an INFORM
C2_Witness ==
    /\ DOMAIN service_agents # {}
    /\ \E i \in 1 .. Len(outbox) : outbox[i].performative = CANCEL_PERFORMATIVE
    /\ \E i \in 1 .. Len(outbox) : outbox[i].performative = INFORM_PERFORMATIVE

\* C3: every well-formed registration REQUEST {type, jid} the registry receives
\* appends jid exactly once to the list of type (creating the list when the type
\* is new), leaves the other lists alone, and sends exactly one empty-bodied
\* ACCEPT to the message's sender.
C3_RegistrationSucceeds ==
    [][ ( RegistrationStep /\ IsWellFormedRegistration(Head(regInbox)) )
        => LET msg == Head(regInbox)
               ty == msg.body.v.type
               old == IF ty \in DOMAIN service_agents THEN service_agents[ty] ELSE <<>>
           IN /\ DOMAIN service_agents' = DOMAIN service_agents \cup {ty}
              /\ service_agents'[ty] = Append(old, msg.body.v.jid)
              /\ \A o \in DOMAIN service_agents \ {ty} :
                    service_agents'[o] = service_agents[o]
              /\ Len(NewReplies) = 1
              /\ NewReplies[1].to = msg.sender
              /\ NewReplies[1].protocol = REGISTER_PROTOCOL
              /\ NewReplies[1].performative = ACCEPT_PERFORMATIVE
              /\ NewReplies[1].body = NoBody ]_vars

\* two registrations under one type were accepted
C3_Witness ==
    /\ \E ty \in DOMAIN service_agents : Len(service_agents[ty]) = 2
    /\ Len(outbox) >= 2
    /\ outbox[1].performative = ACCEPT_PERFORMATIVE
    /\ outbox[2].performative = ACCEPT_PERFORMATIVE

\* C4: a malformed registration REQUEST (a body that does not decode, or a
\* decoded record without type or without jid) never ends the registration
\* loop: the registry map is left as it was, no reply is sent for it, and the
\* behaviour goes on receiving.
C4_MalformedIsSkipped ==
    [][ /\ regAlive'
        /\ ( ( RegistrationStep /\ IsMalformedRegistration(Head(regInbox)) )
             => ( /\ service_agents' = service_agents
                  /\ outbox' = outbox ) ) ]_vars

\* a malformed registration was received, and the well-formed one after it accepted
C4_Witness ==
    /\ Len(processed) >= 2
    /\ IsMalformedRegistration(processed[1])
    /\ IsWellFormedRegistration(processed[2])
    /\ Len(outbox) = 1
    /\ outbox[1].performative = ACCEPT_PERFORMATIVE
    /\ outbox[1].to = processed[2].sender
    /\ DOMAIN service_agents = {processed[2].body.v.type}

\* this step is a call of remove_service
RemoveStep == nRemove' = nRemove + 1

\* C5: deregister(serviceType, identity) removes the entry of the identity from
\* the list of serviceType when the pair is registered, leaving every other
\* entry and type as it was; it fails, with the registry unchanged, only when
\* the pair is absent.
C5_DeregisterRemovesIdentity ==
    [][ ( RemoveStep /\ dirCall'.agent.k = "jid" )
        => LET ty == dirCall'.type
               id == dirCall'.agent.jid
               registered == ty \in DOMAIN service_agents
                             /\ id \in Range(service_agents[ty])
           IN IF registered
              THEN /\ dirCall'.result = "ok"
                   /\ DOMAIN service_agents' = DOMAIN service_agents
                   /\ \E pos \in 1 .. Len(service_agents[ty]) :
                        /\ service_agents[ty][pos] = id
                        /\ service_agents'[ty] =
                             SubSeq(service_agents[ty], 1, pos - 1)
                             \o SubSeq(service_agents[ty], pos + 1, Len(service_agents[ty]))
                   /\ \A o \in DOMAIN service_agents \ {ty} :
                        service_agents'[o] = service_agents[o]
              ELSE /\ dirCall'.result # "ok"
                   /\ service_agents' = service_agents ]_vars

\* ========================================================================
\* Properties of the manager generator
\* ========================================================================
\* C6: while the manager collection holds the M > 0 managers it held when the
\* generator was built, every call of next returns the jid of a manager, M
\* consecutive calls return each manager's jid exactly once, and the k-th call
\* (k > M) returns what the (k - M)-th call returned, so the (M+1)-th call
\* returns what the first call returned.
C6_RoundRobin ==
    ( stable /\ manager_agents # <<>> )
    => LET M == Len(manager_agents)
           ids == {manager_agents[i].jid : i \in 1 .. M}
       IN /\ \A k \in 1 .. Len(nextLog) :
                nextLog[k].result = "ok" /\ nextLog[k].jid \in ids
          /\ \A j \in 1 .. Len(nextLog), k \in 1 .. Len(nextLog) :
                (j < k /\ k - j < M) => nextLog[j].jid # nextLog[k].jid
          /\ \A k \in M + 1 .. Len(nextLog) : nextLog[k].jid = nextLog[k - M].jid

\* next was called M + 1 times on a generator built over M = 2 managers
C6_Witness ==
    /\ stable
    /\ Len(manager_agents) = 2
    /\ Len(nextLog) = 3

\* C7: manager_assignment called while the manager collection is empty fails
\* with an error raised to its caller, so that no next on the generator it
\* built fails later, in the creation of a transport.
C7_EmptyBuildFails ==
    /\ ( simCall.op = "manager_assignment" /\ stable /\ manager_agents = <<>> )
         => simCall.result # "ok"
    /\ \A k \in 1 .. Len(nextLog) : nextLog[k].result # "StopIteration"

\* ========================================================================
\* Properties of the simulation clock and of stop
\* ========================================================================
Elapsed ==
    get_simulation_time(simulation_running, simulation_time, simulation_init_time, now)

\* C8: run called while the simulation is running leaves the start instant as
\* the first run stamped it, and the elapsed time does not drop.
C8_SecondRunKeepsOrigin ==
    [][ ( simulation_running /\ Run )
        => ( /\ simulation_init_time' = simulation_init_time
             /\ Elapsed' >= Elapsed ) ]_vars

ClockRunning == simulation_running /\ simulation_init_time # NoneT
ClockStopped == ~simulation_running /\ simulation_time # NoneT
ClockNeverStarted ==
    ~simulation_running /\ simulation_init_time = NoneT /\ simulation_time = NoneT

\* C9: in every reachable state the clock is running with the start instant
\* set, or not running with the frozen elapsed time set, or never started (not
\* running, no start instant, no frozen elapsed time); it is never running
\* with no start instant.
C9_ClockInvariant == ClockRunning \/ ClockStopped \/ ClockNeverStarted

AllStopped(d) == \A i \in 1 .. Len(d) : d[i].stopped

StartOrClear == Run \/ ClearAgents \/ ClearStoppedAgents \/ Clean \/ Generate

\* stop called on a running simulation reports the instant of the stop minus
\* the start instant; called on a simulation that never started it reports 0
StopReportsElapsed ==
    Stop => /\ simCall'.result = "ok"
            /\ simulation_running
                 => ( /\ simulation_init_time # NoneT
                      /\ Elapsed' = now - simulation_init_time )
            /\ ClockNeverStarted => Elapsed' = 0

\* once stopped, the elapsed time read stays what it is, through repeated stops
\* and the passing of time, until the next start or clear
StoppedElapsedIsFrozen ==
    ( ~simulation_running /\ simulation_time # NoneT /\ ~StartOrClear )
        => Elapsed' = Elapsed

\* C11: stop freezes the elapsed time: the elapsed time read after stop is the
\* instant of the stop minus the start instant (0 when the simulation was never
\* started), and every later read and every repeated stop gives that same value
\* until the next start or clear.
C11_StopFreezesElapsed ==
    [][ StopReportsElapsed /\ StoppedElapsedIsFrozen ]_vars


\* ========================================================================
\* Properties of clear_stopped_agents
\* ========================================================================
\* d2 holds the agents of d that are not stopped, each as it is in d, in the
\* order they have in d, and nothing else
IsStableFilter(d, d2) ==
    /\ \A i \in 1 .. Len(d) : ~d[i].stopped => \E j \in 1 .. Len(d2) : d2[j] = d[i]
    /\ \A j \in 1 .. Len(d2) : ~d2[j].stopped /\ \E i \in 1 .. Len(d) : d[i] = d2[j]
    /\ Len(d2) = Cardinality({i \in 1 .. Len(d) : ~d[i].stopped})
    /\ \A j1 \in 1 .. Len(d2), j2 \in 1 .. Len(d2) :
          j1 < j2 => \E i1 \in 1 .. Len(d), i2 \in 1 .. Len(d) :
                        i1 < i2 /\ d[i1] = d2[j1] /\ d[i2] = d2[j2]

\* C12: clear_stopped_agents is a stable filter on each of the three
\* collections: every agent that was not stopped is still there under its name
\* with its strategy and stopped flag as they were, no stopped agent remains,
\* and no agent is added.
C12_ClearStoppedIsStableFilter ==
    [][ ClearStoppedAgents
        => ( /\ IsStableFilter(manager_agents, manager_agents')
             /\ IsStableFilter(transport_agents, transport_agents')
             /\ IsStableFilter(customer_agents, customer_agents') ) ]_vars

\* clear_stopped_agents was called after a stop: the stopped agent is gone and
\* the manager is still there with the strategy run gave it
C12_Witness ==
    /\ simCall.op = "clear_stopped_agents"
    /\ kill_simulator
    /\ nextName = 2 /\ pending = <<>> /\ inflight = {}
    /\ Len(manager_agents) = 1
    /\ manager_agents[1].strategy # NoStrategy
    /\ transport_agents = <<>>
    /\ customer_agents = <<>>

\* C13: when clear_stopped_agents returns, also when it was called on a running
\* simulation or by generate, the clock is in its never-started state: not
\* running, no start instant, no frozen elapsed time.
C13_ClearStoppedResetsClock ==
    [][ ( ClearStoppedAgents \/ Generate ) => ClockNeverStarted' ]_vars


\* ========================================================================
\* Properties of batch creation
\* ========================================================================
\* the agents of the batch that are in the collection d
BatchAgentsIn(d) ==
    {i \in 1 .. Len(d) : d[i].name > batch.first /\ d[i].name <= batch.first + batch.number}

\* the kill flag was set while the loop of a batch of more than one chunk was
\* running, some agents of the batch submitted: the flag is set, was not set
\* when the first agent was submitted, and the loop has not returned
KilledInLoop ==
    /\ kill_simulator
    /\ batch.st = "loop"
    /\ batch.number > ChunkSize
    /\ nextName > batch.first

\* the loop of the batch has seen the flag and returned, and no coroutine is left
KilledBatchIsDone ==
    /\ kill_simulator
    /\ batch.st = "returned" /\ batch.broke
    /\ batch.number > ChunkSize
    /\ pending = <<>> /\ inflight = {}

\* no agent is created or inserted in this step
NothingCreated ==
    /\ nextName' = nextName
    /\ inflight' \subseteq inflight
    /\ Len(manager_agents') = Len(manager_agents)
    /\ Len(transport_agents') = Len(transport_agents)
    /\ Len(customer_agents') = Len(customer_agents)

BatchIsCut ==
    KilledBatchIsDone => Cardinality(BatchAgentsIn(customer_agents)) < batch.number

\* C14: when the kill flag is set while a batch of K > 20 agents is being
\* created, and stays set, the collection ends with fewer than K agents of the
\* batch, and from the moment the flag is set no agent of the batch is created
\* (its coroutine started) or inserted into a collection.
C14_KillCutsBatch ==
    [][ /\ BatchIsCut'
        /\ KilledInLoop => NothingCreated ]_vars


\* ========================================================================
\* Properties of agent creation
\* ========================================================================
\* d2 is d with one agent added after the agents of d, which are as they were;
\* the agent added holds the strategy of its class
GrownByOneWithStrategy(d, d2) ==
    /\ Len(d2) = Len(d) + 1
    /\ \A i \in 1 .. Len(d) : d2[i] = d[i]
    /\ d2[Len(d2)].strategy # NoStrategy
    /\ d2[Len(d2)].strategy = StrategyOf(d2[Len(d2)].cls)

\* C15: an agent whose creation completes while the simulation is running is in
\* its collection with the strategy of its kind, and the agents that were in
\* the collections before, their strategies included, are as they were.
C15_CreatedWhileRunningGetsStrategy ==
    [][ ( TaskFinish /\ simulation_running )
        => \/ /\ GrownByOneWithStrategy(manager_agents, manager_agents')
              /\ UNCHANGED <<transport_agents, customer_agents>>
           \/ /\ GrownByOneWithStrategy(transport_agents, transport_agents')
              /\ UNCHANGED <<manager_agents, customer_agents>>
           \/ /\ GrownByOneWithStrategy(customer_agents, customer_agents')
              /\ UNCHANGED <<manager_agents, transport_agents>> ]_vars

\* the simulation is running, the last call was create_agents_batch, its
\* coroutines have completed, and two customers hold their strategy
C15_Witness ==
    /\ simulation_running
    /\ simCall.op = "create_agents_batch"
    /\ pending = <<>> /\ inflight = {}
    /\ Len(customer_agents) = 2
    /\ customer_agents[1].strategy = StrategyOf(CustomerAgent)
    /\ customer_agents[2].strategy = StrategyOf(CustomerAgent)


\* ========================================================================
\* Properties of the stats
\* ========================================================================
\* get_stats() in this state, config.max_time being max_time
Stats(max_time, avg_waiting, avg_total, in_destination) ==
    get_stats(customer_agents, simulation_running,
              get_simulation_time(simulation_running, simulation_time,
                                  simulation_init_time, now),
              max_time, avg_waiting, avg_total, in_destination)

StatsNeverFail ==
    \A max_time \in MaxTimes, in_destination \in BOOLEAN :
        Stats(max_time, 1, 1, in_destination).result = "ok"

StatsOfNoCustomersAreZero ==
    customer_agents = <<>>
    => \A max_time \in MaxTimes, in_destination \in BOOLEAN :
          /\ Stats(max_time, 1, 1, in_destination).waiting = "0.00"
          /\ Stats(max_time, 1, 1, in_destination).totaltime = "0.00"

StatsOfNoCustomersAreNotFinished ==
    customer_agents = <<>>
    => \A max_time \in MaxTimes, in_destination \in BOOLEAN :
          Stats(max_time, 1, 1, in_destination).finished = FALSE

\* C16: with no customer in the customer collection, get_stats reports
\* finished = false and waiting and total averages of 0, whatever the state of
\* the clock and whatever config.max_time is, also when the elapsed time is
\* over it; get_stats never fails.
C16_StatsOfNoCustomers ==
    /\ StatsNeverFail
    /\ StatsOfNoCustomersAreZero
    /\ StatsOfNoCustomersAreNotFinished


\* ========================================================================
\* Properties of the order of registration and lookup
\* ========================================================================
\* the ACCEPTs sent, and the registrations they answer: the k-th ACCEPT answers
\* the k-th well-formed registration REQUEST received
Accepts == SelectSeq(outbox, LAMBDA m : m.performative = ACCEPT_PERFORMATIVE)
Acknowledged == SelectSeq(processed, LAMBDA m : IsWellFormedRegistration(m))

\* C17: the registry updates its state before it sends ACCEPT: when the ACCEPT
\* for a registration of jid under a type has been sent, jid is in the list of
\* the type, and, with no deregistration, every lookup REQUEST for the type
\* processed from then on is answered with an INFORM whose list holds jid,
\* never with CANCEL.
C17_StateUpdatedBeforeAccept ==
    [][ /\ Len(Accepts') = Len(Acknowledged')
        /\ \A k \in 1 .. Len(Accepts') : Accepts'[k].to = Acknowledged'[k].sender
        /\ nRemove' = 0
             => \A k \in 1 .. Len(Accepts') :
                   /\ Acknowledged'[k].body.v.type \in DOMAIN service_agents'
                   /\ Acknowledged'[k].body.v.jid
                        \in Range(service_agents'[Acknowledged'[k].body.v.type])
        /\ ( /\ LookupStep
             /\ nRemove = 0
             /\ Head(reqInbox).performative = REQUEST_PERFORMATIVE )
             => \A k \in 1 .. Len(Accepts) :
                   BodyKey(Head(reqInbox).body) = Acknowledged[k].body.v.type
                   => /\ Len(NewReplies) = 1
                      /\ NewReplies[1].performative = INFORM_PERFORMATIVE
                      /\ json_loads(NewReplies[1].body).ok
                      /\ Acknowledged[k].body.v.jid
                           \in Range(json_loads(NewReplies[1].body).v) ]_vars

\* a registration was acknowledged, and the lookup processed after it answered
\* with a list that holds the registered jid
C17_Witness ==
    /\ nRemove = 0
    /\ Len(outbox) >= 2
    /\ outbox[1].performative = ACCEPT_PERFORMATIVE
    /\ outbox[2].performative = INFORM_PERFORMATIVE
    /\ Len(processed) >= 1
    /\ IsWellFormedRegistration(processed[1])
    /\ processed[1].body.v.jid \in Range(outbox[2].body.v)


\* ========================================================================
\* Properties of the serialization of the two loops
\* ========================================================================
\* new is old with one jid appended to the list of one type
OneAppend(old, new) ==
    \E ty \in DOMAIN new :
        /\ DOMAIN new = DOMAIN old \cup {ty}
        /\ \A o \in DOMAIN old \ {ty} : new[o] = old[o]
        /\ Len(new[ty]) = (IF ty \in DOMAIN old THEN Len(old[ty]) ELSE 0) + 1
        /\ \A i \in 1 .. Len(new[ty]) - 1 : new[ty][i] = old[ty][i]

\* C18: registration and lookup handling are serialized on the registry
\* state: a step of either loop takes one message, one step makes at most one
\* append and sends at most one Message, and the list a lookup is answered with
\* is the whole list of the type as the registry holds it between two
\* registrations, the one the presence check saw.
C18_LoopsAreSerialized ==
    [][ /\ ~( RegistrationStep /\ LookupStep )
        /\ Len(processed') <= Len(processed) + 1
        /\ Len(outbox') <= Len(outbox) + 1
        /\ RegistrationStep
             => /\ processed' = Append(processed, Head(regInbox))
                /\ \/ service_agents' = service_agents
                   \/ OneAppend(service_agents, service_agents')
        /\ ~RegistrationStep /\ ~RemoveStep => service_agents' = service_agents
        /\ LookupStep
             => /\ processed' = processed
                /\ \A i \in 1 .. Len(NewReplies) :
                      NewReplies[i].performative = INFORM_PERFORMATIVE
                      => /\ BodyKey(Head(reqInbox).body) \in DOMAIN service_agents
                         /\ json_loads(NewReplies[i].body).ok
                         /\ json_loads(NewReplies[i].body).v
                              = service_agents[BodyKey(Head(reqInbox).body)] ]_vars

\* a lookup was processed between two registrations under one type and
\* answered with the list as it was then
C18_Witness ==
    /\ nRemove = 0
    /\ Len(outbox) = 3
    /\ outbox[1].performative = ACCEPT_PERFORMATIVE
    /\ outbox[2].performative = INFORM_PERFORMATIVE
    /\ outbox[3].performative = ACCEPT_PERFORMATIVE
    /\ \E ty \in DOMAIN service_agents :
          /\ Len(service_agents[ty]) = 2
          /\ outbox[2].body.v = SubSeq(service_agents[ty], 1, 1)


\* ========================================================================
\* Properties of the generator when the manager collection changes
\* ========================================================================
\* C19: once manager_assignment has built the generator, next goes round the
\* managers the collection held when it was built: a manager added later, or
\* the collection replaced by clear_stopped_agents or clear_agents, changes
\* neither the jids next returns nor their order, and never makes next fail.
\* Stated here for the failure: since the generator was built, no next has
\* failed because the collection has changed.
C19_GeneratorIsSnapshot ==
    \A k \in 1 .. Len(nextLog) : nextLog[k].result # "RuntimeError"


\* ========================================================================
\* Properties of the binding of transports to managers
\* ========================================================================
\* the names of the managers created so far: their coroutine has started
\* (submitted before every coroutine that is still pending) and they have not
\* been cleared
CreatedManagers ==
    {t.name : t \in {u \in inflight : u.cls = FleetManagerAgent}}
    \cup {manager_agents[i].name : i \in 1 .. Len(manager_agents)}

\* this step is the creation of a transport, up to its binding to a manager
TransportBindingStep ==
    /\ pending # <<>>
    /\ Head(pending).cls = TransportAgent
    /\ TaskStart

\* C20: a transport is bound at its creation to exactly one manager, one of the
\* managers created before it, and the transports are bound in rotation, also
\* when the creations of the managers and of the transports are scheduled
\* asynchronously, the managers' coroutines not yet completed.  Stated here for
\* the binding: the creation of a transport that follows the creation of
\* managers binds it to the jid of one of them.
C20_TransportBoundToManager ==
    [][ ( TransportBindingStep /\ CreatedManagers # {} )
        => ( /\ nextLog'[Len(nextLog')].result = "ok"
             /\ nextLog'[Len(nextLog')].jid \in {Jid(n) : n \in CreatedManagers} ) ]_vars


\* ========================================================================
\* Properties of run on a running simulation
\* ========================================================================
HoldsStrategy(d) ==
    \A i \in 1 .. Len(d) : d[i].strategy = StrategyOf(d[i].cls)

\* C21: run called while the simulation is running injects the strategy of its
\* kind into every agent that is in the manager, transport and customer
\* collections, and leaves running = true and the start instant as it was.
C21_RunWhileRunningReinjects ==
    [][ ( simulation_running /\ Run )
        => ( /\ HoldsStrategy(manager_agents')
             /\ HoldsStrategy(transport_agents')
             /\ HoldsStrategy(customer_agents')
             /\ simulation_running'
             /\ simulation_init_time' = simulation_init_time ) ]_vars


\* ========================================================================
\* Properties of the loop of create_agents_batch
\* ========================================================================
\* the loop is at a pass of the range of its chunk: the pass reads the kill flag
InChunk ==
    /\ batch.st = "loop"
    /\ batch.c <= Len(batch.iterations)
    /\ batch.k < batch.iterations[batch.c]

\* this step is one pass of the loop of create_agents_batch
LoopStep == batch.st = "loop" /\ batch' # batch

\* C22: create_agents_batch reads the kill flag before each agent it creates.
\* A pass that finds it set creates nothing and leaves the chunk, whose
\* remaining agents are never created; a pass that finds it clear creates one
\* agent; so after a break agents are created again, in a later chunk, only
\* when the flag was cleared, and while it stays set no chunk creates anything.
C22_KillCheckedBeforeEachAgent ==
    [][ /\ ( LoopStep /\ InChunk /\ kill_simulator )
             => ( /\ nextName' = nextName
                  /\ pending' = pending
                  /\ batch'.c = batch.c + 1
                  /\ batch'.k = 0 )
        /\ ( LoopStep /\ InChunk /\ ~kill_simulator )
             => ( /\ nextName' = nextName + 1
                  /\ pending' = Append(pending, Task(batch.cls, nextName'))
                  /\ batch'.c = batch.c
                  /\ batch'.k = batch.k + 1 )
        /\ ( LoopStep /\ ~InChunk )
             => ( nextName' = nextName /\ pending' = pending )
        /\ ( batch.st = "loop" /\ batch'.st = "loop" ) => batch'.c >= batch.c ]_vars

\* the loop left its first chunk by the break after one agent, run cleared the
\* flag, and the loop created the agent of its second chunk
C22_Witness ==
    /\ batch.st = "returned"
    /\ batch.broke
    /\ batch.number = ChunkSize + 1
    /\ nextName = batch.first + 2
    /\ ~kill_simulator


\* ========================================================================
\* Properties of batches in flight together
\* ========================================================================
AllAgents == manager_agents \o transport_agents \o customer_agents

\* C23: with batches created while others are in flight, distinct names and no
\* cancellation, every agent a batch created is in the collection of its class
\* exactly once when all the coroutines have completed: the collections hold as
\* many agents as were requested, none lost and none twice.  The transports
\* created while there was no manager at all are left aside.
C23_NoInsertionLost ==
    /\ \A i \in 1 .. Len(AllAgents), j \in 1 .. Len(AllAgents) :
          AllAgents[i].name = AllAgents[j].name => i = j
    /\ \A i \in 1 .. Len(manager_agents) : manager_agents[i].cls = FleetManagerAgent
    /\ \A i \in 1 .. Len(transport_agents) : transport_agents[i].cls = TransportAgent
    /\ \A i \in 1 .. Len(customer_agents) : customer_agents[i].cls = CustomerAgent
    /\ ( /\ pending = <<>> /\ inflight = {}
         /\ \A k \in 1 .. Len(nextLog) : nextLog[k].result # "StopIteration" )
         => Len(AllAgents) = nextName



\* ========================================================================
\* Properties of the finished value of the stats
\* ========================================================================
\* C25: the finished value get_stats reports is "all customers have reached
\* their destination": true exactly when there is a customer in the collection
\* and every customer is in its destination, whatever config.max_time is, None
\* included.
C25_FinishedIsAllInDestination ==
    \A max_time \in MaxTimes, in_destination \in BOOLEAN :
        Stats(max_time, 1, 1, in_destination).result = "ok"
        => Stats(max_time, 1, 1, in_destination).finished
             = ( customer_agents # <<>> /\ in_destination )


\* ========================================================================
\* Properties of stop_agents and the creations that are in flight
\* ========================================================================
\* C28: once stop_agents has set the kill flag and the creations submitted
\* before it have all completed, every agent of the transport collection and of
\* the customer collection has stopped = true.
C28_StopReachesAgentsInFlight ==
    ( kill_simulator /\ pending = <<>> /\ inflight = {} )
    => ( AllStopped(transport_agents) /\ AllStopped(customer_agents) )

\* ========================================================================
\* Properties of the kill flag
\* ========================================================================
\* the steps that submit creations
SubmitStep == simCall'.op \in {"create_agents_batch", "generate"}
                /\ (CreateAgentsBatch \/ Generate)

\* while it is set, create_agents_batch and generate submit no creation
NoCreationWhileKilled ==
    ( kill_simulator /\ SubmitStep ) => ( pending' = pending /\ nextName' = nextName )

\* while it is clear, create_agents_batch submits the agents it is asked for
CreationWhileNotKilled ==
    ( ~kill_simulator /\ CreateAgentsBatch )
    => \E cls \in AgentClasses, number \in BatchNumbers :
          /\ nextName' = nextName + Max(number, 0)
          /\ pending' = pending \o [i \in 1 .. Max(number, 0) |-> Task(cls, nextName + i)]

\* C30: the kill flag stop_agents sets stays set until the next run that finds
\* the simulation not running; while it is set a call of create_agents_batch or
\* of generate submits no creation, and after that run create_agents_batch
\* submits the agents it is asked for again.
C30_KillFlagBlocksCreationUntilRun ==
    [][ \* the flag is set by stop, stop_agents and clean only
        /\ ( ~kill_simulator /\ kill_simulator' ) => ( Stop \/ StopAgents \/ Clean )
        \* it is cleared only by a run that finds the simulation not running,
        \* and such a run clears it
        /\ ( kill_simulator /\ ~kill_simulator' ) => ( Run /\ ~simulation_running )
        /\ ( Run /\ ~simulation_running ) => ~kill_simulator'
        /\ NoCreationWhileKilled
        /\ CreationWhileNotKilled ]_vars

\* create_agents_batch or generate was called with the kill flag set and
\* nothing was ever submitted
C30_Witness ==
    /\ kill_simulator
    /\ simCall.op \in {"create_agents_batch", "generate"}
    /\ nextName = 0
    /\ pending = <<>>


\* ========================================================================
\* Properties of the two threads and the two locks
\* ========================================================================
\* what a collection holds: the names, in order, and the stopped flags
Entries(d) == [i \in 1 .. Len(d) |-> <<d[i].name, d[i].stopped>>]

\* a step inserts into a collection, replaces it or marks an agent stopped, or
\* writes simulation_running, simulation_init_time or simulation_time
Mutation ==
    \/ Entries(manager_agents') # Entries(manager_agents)
    \/ Entries(transport_agents') # Entries(transport_agents)
    \/ Entries(customer_agents') # Entries(customer_agents)
    \/ clockVars' # clockVars

\* the thread that takes the step holds simulation_mutex or lock
HoldsALock ==
    IF ctl' # ctl
    THEN simulation_mutex = "ctl" \/ lock = "ctl"
    ELSE simulation_mutex = "loop"

\* C24: every mutation of the three collections (an insertion, a replacement
\* by clear_stopped_agents or clear_agents, an agent marked stopped) and of the
\* clock (simulation_running, simulation_init_time, simulation_time) is made by
\* a thread that holds simulation_mutex or lock.
C24_MutationsHoldALock ==
    [][ Mutation => HoldsALock ]_vars

\* no call and no creation is under way
Quiescent ==
    /\ ctl.op = "idle"
    /\ pending = <<>>
    /\ inflight = {}
    /\ adding.st = "idle"

\* C26: once simulation_running is true and every creation that was in flight
\* has completed, every agent that is not stopped holds the strategy of its
\* kind, however run and the creation coroutines were interleaved.
C26_RunningAgentsHoldStrategy ==
    ( simulation_running /\ Quiescent )
    => ( /\ HoldsStrategy(NotStopped(manager_agents))
         /\ HoldsStrategy(NotStopped(transport_agents))
         /\ HoldsStrategy(NotStopped(customer_agents)) )

\* the agents of a collection that are not stopped are in it after the step
KeepsNotStopped(c) ==
    \A i \in 1 .. Len(AgentsOf(c)) :
        ~AgentsOf(c)[i].stopped
        => \E j \in 1 .. Len(AgentsOf(c)') : AgentsOf(c)'[j].name = AgentsOf(c)[i].name

\* C27: the replacement clear_stopped_agents makes of a collection, called
\* alone or from run, discards no agent that is not stopped, whatever add_*
\* inserted while it was reading and filtering.
C27_ClearKeepsConcurrentInsertion ==
    [][ CtlSet => KeepsNotStopped(ctl.c) ]_vars

\* stop_agents is in its loop over the collection the coroutine inserts into
Sweeping == ctl.op = "stop_agents" /\ ctl.pc = "sweep"
              /\ ctl.c = CollectionOf(adding.cls)

\* C29: add_transport and add_customer never insert into a collection while
\* stop_agents is in its loop over that collection.
C29_SweepExcludesInsertion ==
    [][ AddInsert => ~Sweeping ]_vars


\* ========================================================================
\* Properties of stop followed by run
\* ========================================================================
\* the agents that are in a collection before and after a step and were stopped
\* before it are stopped after it
StoppedStays(d, e) ==
    \A i \in 1 .. Len(d), j \in 1 .. Len(e) :
        ( d[i].name = e[j].name /\ d[i].stopped ) => e[j].stopped

====
